---- MODULE Spec2Model ----
(***************************************************************************)
(* A model of llvm_archive_writer/src/archive_writer.rs: the writer of     *)
(* "ar" archives (GNU, BSD and Darwin flavours, 32 and 64 bit symbol       *)
(* tables, thin archives).                                                 *)
(*                                                                         *)
(* One behaviour of the model is one call of write_archive_to_stream.  The *)
(* arguments are drawn in Init; every action is one step of the function   *)
(* (the thin-mode assertion, one iteration of the loop of                  *)
(* compute_member_data, the sizing phase, the magic, the symbol table, one *)
(* iteration of the final write loop, the flush).                          *)
(*                                                                         *)
(* Bytes are numbers 0..255.  Headers, the string table, the symbol name   *)
(* buffer and the symbol table are modelled byte for byte.  The payload of *)
(* a member is opaque: a buffer is its length and what object::File::parse *)
(* makes of it, because payloads of 4 GiB and more have to be modelled.    *)
(* The sink is an in-memory cursor: its writes do not fail.                *)
(***************************************************************************)
EXTENDS Integers, Sequences, FiniteSets, TLC

(***************************************************************************)
(* u64.  The integers of the model checker stop at 2^31 - 1, the offsets   *)
(* of the program do not: a u64 is the pair [hi, lo] that stands for       *)
(* hi * 10^9 + lo, with lo < 10^9.  10^9 is a multiple of 8 and of 256,    *)
(* so alignment and the low byte only need lo.                             *)
(***************************************************************************)
Base == 10^9

U64(hi, lo) == [hi |-> hi, lo |-> lo]

\* u64::try_from(n) of a usize that fits the model checker's integers.
U64FromInt(n) == [hi |-> n \div Base, lo |-> n % Base]

Zero == U64FromInt(0)

Add(a, b) ==
    LET s == a.lo + b.lo
    IN  [hi |-> a.hi + b.hi + (s \div Base), lo |-> s % Base]

AddInt(a, n) == Add(a, U64FromInt(n))

Ge(a, b) == a.hi > b.hi \/ (a.hi = b.hi /\ a.lo >= b.lo)

Gt(a, b) == a.hi > b.hi \/ (a.hi = b.hi /\ a.lo > b.lo)

\* a % k for a k that divides 10^9 (2 and 8 here).
ModSmall(a, k) == a.lo % k

(***************************************************************************)
(* Text.  Str turns a tuple of one-character strings into bytes.           *)
(***************************************************************************)
Alnum ==
    << "0", "1", "2", "3", "4", "5", "6", "7", "8", "9", ":", ";", "<", "=", ">", "?",
       "@", "A", "B", "C", "D", "E", "F", "G", "H", "I", "J", "K", "L", "M", "N", "O",
       "P", "Q", "R", "S", "T", "U", "V", "W", "X", "Y", "Z", "[", "|", "]", "^", "_",
       "|", "a", "b", "c", "d", "e", "f", "g", "h", "i", "j", "k", "l", "m", "n", "o",
       "p", "q", "r", "s", "t", "u", "v", "w", "x", "y", "z" >>

\* the ASCII code of a character ("|" only fills the places of the backslash
\* and of the backtick)
Ord(c) ==
    CASE c = "\n" -> 10
      [] c = " " -> 32
      [] c = "!" -> 33
      [] c = "#" -> 35
      [] c = "." -> 46
      [] c = "/" -> 47
      [] OTHER -> 47 + (CHOOSE i \in 1..Len(Alnum) : Alnum[i] = c)

\* the backtick that ends a member header
Backtick == 96

Str(t) == [i \in 1..Len(t) |-> Ord(t[i])]

Repeat(b, n) == [i \in 1..n |-> b]

\* "{:<w}": left-justified, filled with spaces up to w; never truncated.
PadRight(s, w) == s \o Repeat(Ord(" "), IF Len(s) < w THEN w - Len(s) ELSE 0)

\* "{nil:\0<pad$}": pad NUL bytes.
Nuls(pad) == Repeat(0, pad)

RECURSIVE Digits(_, _)
\* the digits of n in the given radix, most significant first
Digits(n, radix) ==
    IF n < radix THEN << Ord("0") + n >>
    ELSE Append(Digits(n \div radix, radix), Ord("0") + (n % radix))

\* Display of a u32/usize that fits an integer
DecInt(n) == Digits(n, 10)

\* "{:o}" of a u32
Oct(n) == Digits(n, 8)

\* Display of a u64
Dec(a) ==
    IF a.hi = 0 THEN DecInt(a.lo)
    ELSE LET low == DecInt(a.lo)
         IN  DecInt(a.hi) \o Repeat(Ord("0"), 9 - Len(low)) \o low

RECURSIVE Concat(_)
\* the concatenation of a sequence of byte sequences
Concat(ss) == IF ss = << >> THEN << >> ELSE Head(ss) \o Concat(Tail(ss))

(***************************************************************************)
(* crate::alignment and crate::archive: what archive_writer.rs imports.    *)
(***************************************************************************)
\* the bytes to add to value to reach the next multiple of alignment
offset_to_alignment(value, alignment) ==
    (alignment - ModSmall(value, alignment)) % alignment

ArchiveKind == {"Gnu", "Gnu64", "Bsd", "Darwin", "Darwin64", "Coff", "AixBig"}

\* the largest size the 10-character size field of a header can hold
MAX_MEMBER_SIZE == U64(9, 999999999)

(***************************************************************************)
(* Format policy.                                                          *)
(***************************************************************************)
is_darwin(kind) == kind \in {"Darwin", "Darwin64"}

\* is_bsd_like panics on these kinds ("not supported for writing")
NotSupportedForWriting(kind) == kind \in {"Coff", "AixBig"}

\* is_bsd_like where it returns; it is never evaluated on the kinds it panics on
is_bsd_like(kind) ==
    CASE kind \in {"Gnu", "Gnu64"} -> FALSE
      [] kind \in {"Bsd", "Darwin", "Darwin64"} -> TRUE

is_64bit_kind(kind) == kind \in {"Darwin64", "Gnu64"}

(***************************************************************************)
(* Member headers.                                                         *)
(***************************************************************************)
print_rest_of_member_header(mtime, uid, gid, perms, size) ==
    PadRight(Dec(mtime), 12) \o PadRight(DecInt(uid % 1000000), 6)
        \o PadRight(DecInt(gid % 1000000), 6) \o PadRight(Oct(perms), 8)
        \o PadRight(Dec(size), 10) \o << Backtick, Ord("\n") >>

\* (mutant) the name is written without the "/" that ends it
print_gnu_small_member_header_NoSlash(name, mtime, uid, gid, perms, size) ==
    PadRight(name, 16) \o print_rest_of_member_header(mtime, uid, gid, perms, size)

print_gnu_small_member_header(name, mtime, uid, gid, perms, size) ==
    PadRight(name \o Str(<< "/" >>), 16)
        \o print_rest_of_member_header(mtime, uid, gid, perms, size)

print_bsd_member_header(pos, name, mtime, uid, gid, perms, size) ==
    LET pos_after_header == AddInt(pos, 60 + Len(name))
        pad == offset_to_alignment(pos_after_header, 8)
        name_with_padding == Len(name) + pad
    IN  Str(<< "#", "1", "/" >>) \o PadRight(DecInt(name_with_padding), 13)
            \o print_rest_of_member_header(mtime, uid, gid, perms,
                                           AddInt(size, name_with_padding))
            \o name \o Nuls(pad)

use_string_table(thin, name) ==
    thin \/ Len(name) >= 16 \/ \E i \in 1..Len(name) : name[i] = Ord("/")

\* (mutant) the record is not ended by a newline
StringTableEntry_NoNewline(name) == name \o Str(<< "/" >>)

\* one record of the string table: "{}/\n"
StringTableEntry(name) == name \o Str(<< "/", "\n" >>)

\* (mutant) a name already in the string table is not looked up
ReuseName_Never(thin, member_names, name) == FALSE

\* whether the name's offset is taken from member_names instead of appending it
ReuseName(thin, member_names, name) == ~thin /\ name \in DOMAIN member_names

\* The header of member m, with the string table and the name cache as the call
\* leaves them.  member_names is a function from names to offsets.
print_member_header(pos, string_table, member_names, kind, thin, m, mtime, size) ==
    IF is_bsd_like(kind) THEN
        [header |-> print_bsd_member_header(pos, m.member_name, mtime, m.uid, m.gid,
                                            m.perms, size),
         string_table |-> string_table,
         member_names |-> member_names]
    ELSE IF ~use_string_table(thin, m.member_name) THEN
        [header |-> print_gnu_small_member_header(m.member_name, mtime, m.uid, m.gid,
                                                  m.perms, size),
         string_table |-> string_table,
         member_names |-> member_names]
    ELSE
        LET reuse == ReuseName(thin, member_names, m.member_name)
            name_pos == IF reuse THEN member_names[m.member_name]
                        ELSE U64FromInt(Len(string_table))
        IN  [header |-> Str(<< "/" >>) \o PadRight(Dec(name_pos), 15)
                            \o print_rest_of_member_header(mtime, m.uid, m.gid,
                                                           m.perms, size),
             string_table |-> IF reuse THEN string_table
                              ELSE string_table \o StringTableEntry(m.member_name),
             member_names |-> IF thin \/ reuse THEN member_names
                              ELSE (m.member_name :> name_pos) @@ member_names]

(***************************************************************************)
(* Byte slices and MemberData.  A slice is either explicit (its bytes are  *)
(* modelled) or a member's buffer: its length and the object that          *)
(* object::File::parse finds in it, [ok |-> FALSE] when it finds none.  A  *)
(* symbol is [name, global, definition].                                   *)
(***************************************************************************)
NoObject == [ok |-> FALSE, syms |-> << >>]

Bytes(b) == [explicit |-> TRUE, bytes |-> b, len |-> U64FromInt(Len(b)), obj |-> NoObject]

\* &[][..]
EmptySlice == Bytes(<< >>)

\* struct MemberData
MemberData(symbols, header, data, padding) ==
    [symbols |-> symbols, header |-> header, data |-> data, padding |-> padding]

\* header.len() + data.len() + padding.len() of one MemberData
RecordLen(m) == Add(U64FromInt(Len(m.header) + Len(m.padding)), m.data.len)

compute_string_table(names) ==
    LET size == U64FromInt(Len(names))
        pad == offset_to_alignment(size, 2)
    IN  MemberData(<< >>,
                   PadRight(Str(<< "/", "/" >>), 48) \o PadRight(Dec(AddInt(size, pad)), 10)
                       \o << Backtick, Ord("\n") >>,
                   Bytes(names),
                   IF pad # 0 THEN << Ord("\n") >> ELSE << >>)

\* (mutant) the wall clock is there
NowPanics_Never(deterministic) == FALSE

\* now(deterministic) is todo!() unless deterministic
NowPanics(deterministic) == ~deterministic

\* (mutant) a time other than 0 in deterministic mode
now_NotZero(deterministic) == U64FromInt(1)

now(deterministic) == Zero

is_archive_symbol(sym) == sym.global /\ sym.definition

(***************************************************************************)
(* The symbol table.                                                       *)
(***************************************************************************)
TwoPow32 == U64(4, 294967296)

RECURSIVE LeBytesInt(_, _)
\* the n low bytes of an integer, least significant first
LeBytesInt(v, n) ==
    IF n = 0 THEN << >> ELSE << v % 256 >> \o LeBytesInt(v \div 256, n - 1)

\* u64::to_le_bytes / u32::to_le_bytes: the width low bytes of a u64
ToLeBytes(val, width) ==
    << val.lo % 256 >>
        \o LeBytesInt(val.hi * (Base \div 256) + (val.lo \div 256), width - 1)

Reverse(s) == [i \in 1..Len(s) |-> s[Len(s) + 1 - i]]

\* u32::try_from(val).unwrap() panics when val does not fit 32 bits
PrintNBitsPanics(kind, val) == ~is_64bit_kind(kind) /\ Ge(val, TwoPow32)

print_n_bits(kind, val) ==
    LET width == IF is_64bit_kind(kind) THEN 8 ELSE 4
    IN  IF is_bsd_like(kind) THEN ToLeBytes(val, width)
        ELSE Reverse(ToLeBytes(val, width))

\* (mutant) the size leaves out the field after the BSD table
compute_symbol_table_size_and_pad_NoByteCount(kind, num_syms, offset_size, string_table) ==
    LET entries == IF is_bsd_like(kind) THEN num_syms * offset_size * 2
                   ELSE num_syms * offset_size
        size == U64FromInt(offset_size + entries + Len(string_table))
        pad == offset_to_alignment(size, IF is_bsd_like(kind) THEN 8 ELSE 2)
    IN  [size |-> AddInt(size, pad), pad |-> pad]

compute_symbol_table_size_and_pad(kind, num_syms, offset_size, string_table) ==
    LET entries == IF is_bsd_like(kind) THEN num_syms * offset_size * 2
                   ELSE num_syms * offset_size
        count == IF is_bsd_like(kind) THEN offset_size ELSE 0
        size == U64FromInt(offset_size + entries + count + Len(string_table))
        pad == offset_to_alignment(size, IF is_bsd_like(kind) THEN 8 ELSE 2)
    IN  [size |-> AddInt(size, pad), pad |-> pad]

\* pos is w.stream_position(), which only the BSD header reads
write_symbol_table_header(pos, kind, deterministic, size) ==
    IF is_bsd_like(kind) THEN
        LET name == IF is_64bit_kind(kind)
                    THEN Str(<< "_", "_", ".", "S", "Y", "M", "D", "E", "F", "_", "6", "4" >>)
                    ELSE Str(<< "_", "_", ".", "S", "Y", "M", "D", "E", "F" >>)
        IN  print_bsd_member_header(pos, name, now(deterministic), 0, 0, 0, size)
    ELSE
        LET name == IF is_64bit_kind(kind) THEN Str(<< "/", "S", "Y", "M", "6", "4" >>)
                    ELSE << >>
        IN  print_gnu_small_member_header(name, now(deterministic), 0, 0, 0, size)

RECURSIVE SumSymbols(_)
\* members.iter().map(|m| m.symbols.len()).sum()
SumSymbols(members) ==
    IF members = << >> THEN 0
    ELSE Len(Head(members).symbols) + SumSymbols(Tail(members))

\* (mutant) the size of the symbol table's body is left out
FirstMemberPos_NoBody(after_header, size) == after_header

\* the position the first member of the list starts at: the stream position
\* after the symbol table's header, plus the size of its body
FirstMemberPos(after_header, size) == Add(after_header, size)

RECURSIVE SymbolEntries(_, _, _)
\* The values the loop over members hands to print_n_bits, in order: for every
\* symbol of every member the name offset (BSD only) and the member's position.
SymbolEntries(kind, members, pos) ==
    IF members = << >> THEN << >>
    ELSE LET m == Head(members)
             own == Concat([j \in 1..Len(m.symbols) |->
                              IF is_bsd_like(kind) THEN << m.symbols[j], pos >>
                              ELSE << pos >>])
         IN  own \o SymbolEntries(kind, Tail(members), Add(pos, RecordLen(m)))

\* What write_symbol_table writes at stream position at: the slices it appends
\* and whether it panicked on the way (after a panic the slices are what was
\* written before it).
write_symbol_table(at, kind, deterministic, members, string_table) ==
    IF string_table = << >> /\ ~is_darwin(kind) THEN [written |-> << >>, panic |-> FALSE]
    ELSE IF NowPanics(deterministic) THEN [written |-> << >>, panic |-> TRUE]
    ELSE
        LET num_syms == SumSymbols(members)
            offset_size == IF is_64bit_kind(kind) THEN 8 ELSE 4
            sp == compute_symbol_table_size_and_pad(kind, num_syms, offset_size,
                                                    string_table)
            header == write_symbol_table_header(at, kind, deterministic, sp.size)
            pos == FirstMemberPos(AddInt(at, Len(header)), sp.size)
            first == IF is_bsd_like(kind) THEN U64FromInt(num_syms * 2 * offset_size)
                     ELSE U64FromInt(num_syms)
            last == IF is_bsd_like(kind) THEN << U64FromInt(Len(string_table)) >>
                    ELSE << >>
            values == << first >> \o SymbolEntries(kind, members, pos) \o last
            bad == {k \in 1..Len(values) : PrintNBitsPanics(kind, values[k])}
            good == IF bad = {} THEN Len(values)
                    ELSE (CHOOSE k \in bad : \A j \in bad : k <= j) - 1
            fields == Concat([k \in 1..good |-> print_n_bits(kind, values[k])])
        IN  IF bad = {}
            THEN [written |-> << Bytes(header),
                                 Bytes(fields \o string_table \o Nuls(sp.pad)) >>,
                  panic |-> FALSE]
            ELSE [written |-> << Bytes(header), Bytes(fields) >>, panic |-> TRUE]

RECURSIVE get_symbols_of(_, _)
\* the loop of get_symbols over the symbols of a parsed object: the offsets
\* pushed and the name buffer, [ret, sym_names]
get_symbols_of(syms, sym_names) ==
    IF syms = << >> THEN [ret |-> << >>, sym_names |-> sym_names]
    ELSE IF ~is_archive_symbol(Head(syms)) THEN get_symbols_of(Tail(syms), sym_names)
    ELSE LET rest == get_symbols_of(Tail(syms), sym_names \o Head(syms).name \o << 0 >>)
         IN  [ret |-> << U64FromInt(Len(sym_names)) >> \o rest.ret,
              sym_names |-> rest.sym_names]

\* (mutant) has_object is set before the buffer is parsed
get_symbols_ObjectUnparsed(buf, sym_names, has_object) ==
    LET r == get_symbols_of(buf.obj.syms, sym_names)
    IN  [ret |-> r.ret, sym_names |-> r.sym_names, has_object |-> TRUE]

\* get_symbols: [ret, sym_names, has_object]
get_symbols(buf, sym_names, has_object) ==
    IF buf.obj.ok
    THEN LET r == get_symbols_of(buf.obj.syms, sym_names)
         IN  [ret |-> r.ret, sym_names |-> r.sym_names, has_object |-> TRUE]
    ELSE [ret |-> << >>, sym_names |-> sym_names, has_object |-> has_object]

(***************************************************************************)
(* The call.                                                               *)
(***************************************************************************)
VARIABLES
    new_members,    \* the members handed in (NewArchiveMember, in input order)
    write_symtab,   \* argument
    kind,           \* argument (mut): the sizing phase may upgrade it
    deterministic,  \* argument
    thin,           \* argument
    caller_kind,    \* the kind the caller passed, kept for the properties
    pc,             \* where the call is
    string_table,   \* Cursor<Vec<u8>>: the names of the "//" member
    sym_names,      \* Cursor<Vec<u8>>: the symbol names, NUL terminated
    member_names,   \* HashMap<&str, u64> of compute_member_data
    filename_count, \* HashMap<&str, u64> of compute_member_data
    pos,            \* the position counter of compute_member_data
    has_object,     \* has_object of compute_member_data
    data,           \* Vec<MemberData>: ret of compute_member_data, then data
    next_member,    \* the member the loop of compute_member_data is at
    last_offset,    \* last_offset of the sizing phase
    next_write,     \* the entry of data the final loop is at
    w,              \* the sink: the slices written so far, in order
    error           \* the member an Err names, << >> when there is none

vars ==
    << new_members, write_symtab, kind, deterministic, thin, caller_kind, pc,
       string_table, sym_names, member_names, filename_count, pos, has_object, data,
       next_member, last_offset, next_write, w, error >>

RECURSIVE StreamLen(_)
\* w.stream_position(): the sink is only appended to
StreamLen(out) == IF out = << >> THEN Zero ELSE Add(Head(out).len, StreamLen(Tail(out)))

(***************************************************************************)
(* The inputs.                                                             *)
(***************************************************************************)
\* a member's buffer: its length and what parsing it as an object gives
Buf(len, obj) == [explicit |-> FALSE, bytes |-> << >>, len |-> len, obj |-> obj]

Object(syms) == [ok |-> TRUE, syms |-> syms]

Symbol(name, global, definition) ==
    [name |-> name, global |-> global, definition |-> definition]

NewArchiveMember(buf, member_name, mtime, uid, gid, perms) ==
    [buf |-> buf, member_name |-> member_name, mtime |-> mtime, uid |-> uid,
     gid |-> gid, perms |-> perms]

NameA == Str(<< "a", ".", "o" >>)
NameB == Str(<< "b", "b", ".", "o" >>)
\* 16 bytes: the shortest name that goes to the string table
NameLong == Str(<< "l", "o", "n", "g", "_", "m", "e", "m", "b", "e", "r", "_", "1", "6",
                   ".", "o" >>)
NameDir == Str(<< "d", "/", "e", ".", "o" >>)

\* not an object file, odd length
Text3 == Buf(U64FromInt(3), NoObject)
\* an object with a local symbol and an undefined global one: nothing qualifies
ObjNoSyms ==
    Buf(U64FromInt(8), Object(<< Symbol(Str(<< "l" >>), FALSE, TRUE),
                                 Symbol(Str(<< "u" >>), TRUE, FALSE) >>))
ObjOneSym ==
    Buf(U64FromInt(24), Object(<< Symbol(Str(<< "f" >>), TRUE, TRUE),
                                  Symbol(Str(<< "g" >>), TRUE, FALSE) >>))
ObjTwoSyms ==
    Buf(U64FromInt(13), Object(<< Symbol(Str(<< "m", "a", "i", "n" >>), TRUE, TRUE),
                                  Symbol(Str(<< "l" >>), FALSE, TRUE),
                                  Symbol(Str(<< "x" >>), TRUE, TRUE) >>))
\* 2^32 bytes that are no object
Huge == Buf(TwoPow32, NoObject)
\* one byte more than a header's size field can hold
TooBig == Buf(U64(10, 0), NoObject)

Catalog ==
    { NewArchiveMember(Text3, NameA, U64FromInt(5), 1000, 100, 420),
      NewArchiveMember(ObjOneSym, NameB, Zero, 0, 0, 0),
      NewArchiveMember(ObjTwoSyms, NameLong, U64FromInt(7), 1234567, 0, 493),
      NewArchiveMember(ObjNoSyms, NameA, U64FromInt(9), 0, 0, 0),
      NewArchiveMember(Huge, NameDir, Zero, 0, 0, 0),
      NewArchiveMember(ObjOneSym, NameLong, Zero, 0, 0, 0),
      NewArchiveMember(TooBig, NameB, Zero, 0, 0, 0) }

MaxMembers == 2

\* the sequences over S of length at most n
SeqUpTo(S, n) == UNION {[1..k -> S] : k \in 0..n}

\* the state a call starts in, with its arguments
Start(members, symtab, k, det, th) ==
    /\ new_members = members
    /\ write_symtab = symtab
    /\ kind = k
    /\ deterministic = det
    /\ thin = th
    /\ caller_kind = k
    /\ pc = "assert"
    /\ string_table = << >>
    /\ sym_names = << >>
    /\ member_names = << >>
    /\ filename_count = << >>
    /\ pos = Zero
    /\ has_object = FALSE
    /\ data = << >>
    /\ next_member = 1
    /\ last_offset = Zero
    /\ next_write = 1
    /\ w = << >>
    /\ error = << >>

\* a call with every kind and flag, on the lists of at most n members of a catalog
InitOver(catalog, n) ==
    \E members \in SeqUpTo(catalog, n), k \in ArchiveKind,
       symtab \in BOOLEAN, det \in BOOLEAN, th \in BOOLEAN :
        Start(members, symtab, k, det, th)

Init == InitOver(Catalog, MaxMembers)

\* members for the timestamps: one name three times with different contents and
\* times, and another name
CatalogTimestamps ==
    { NewArchiveMember(Text3, NameA, U64FromInt(5), 0, 0, 0),
      NewArchiveMember(ObjOneSym, NameA, U64FromInt(9), 0, 0, 0),
      NewArchiveMember(Text3, NameB, U64FromInt(7), 0, 0, 0) }

MaxTimestampMembers == 3

InitTimestamps == InitOver(CatalogTimestamps, MaxTimestampMembers)

\* ends like NameDir, which goes to the string table for its "/"
NameDeep == Str(<< "x", "/", "d", "/", "e", ".", "o" >>)

\* members for the string table: names that go there, shared and not, and a
\* short one
CatalogNames ==
    { NewArchiveMember(Text3, NameLong, Zero, 0, 0, 0),
      NewArchiveMember(ObjOneSym, NameLong, U64FromInt(5), 0, 0, 0),
      NewArchiveMember(Text3, NameDeep, Zero, 0, 0, 0),
      NewArchiveMember(Text3, NameDir, Zero, 0, 0, 0),
      NewArchiveMember(Text3, NameA, Zero, 0, 0, 0) }

MaxNameMembers == 3

InitNames == InitOver(CatalogNames, MaxNameMembers)

\* a buffer that fits the size field of a header as it is, and no longer with
\* the padding of a Darwin kind
NearMax == Buf(U64(9, 999999996), NoObject)

\* members for the widths of the header fields and for the size limit: an mtime
\* of 13 digits, permissions of 9 octal digits, a buffer at the limit and one
\* beyond it
CatalogWide ==
    { NewArchiveMember(Text3, NameA, U64(1000, 0), 0, 0, 420),
      NewArchiveMember(ObjOneSym, NameB, Zero, 1234567, 0, 16777216),
      NewArchiveMember(NearMax, NameLong, Zero, 0, 0, 0),
      NewArchiveMember(TooBig, NameDir, U64FromInt(5), 0, 0, 0) }

MaxWideMembers == 2

InitWide == InitOver(CatalogWide, MaxWideMembers)

NameBo == Str(<< "b", ".", "o" >>)

\* n zero bytes: no object file
Zeros(n) == Buf(U64FromInt(n), NoObject)

\* the members of the scenario of two small files, with an owner, a time and
\* permissions and without
CatalogScenario ==
    { NewArchiveMember(Zeros(500), NameA, Zero, 0, 0, 0),
      NewArchiveMember(Zeros(10), NameBo, Zero, 0, 0, 0),
      NewArchiveMember(Zeros(500), NameA, U64FromInt(5), 1000, 100, 420) }

MaxScenarioMembers == 2

InitScenario == InitOver(CatalogScenario, MaxScenarioMembers)

\* 2^32 - 140 bytes that are no object: what follows it starts below or
\* beyond 2^32, by the size of the symbol table
BelowThreshold == Buf(U64(4, 294967156), NoObject)

\* members for the threshold of the 64-bit symbol table
CatalogThreshold ==
    { NewArchiveMember(BelowThreshold, NameA, Zero, 0, 0, 0),
      NewArchiveMember(ObjOneSym, NameB, Zero, 0, 0, 0),
      NewArchiveMember(ObjTwoSyms, NameB, Zero, 0, 0, 0),
      NewArchiveMember(Text3, NameA, Zero, 0, 0, 0) }

MaxThresholdMembers == 2

InitThreshold == InitOver(CatalogThreshold, MaxThresholdMembers)

(***************************************************************************)
(* write_archive_to_stream, step by step.  pc is "done" after Ok(()),      *)
(* "error" after Err and "panic" after a panic.                            *)
(***************************************************************************)
\* (mutant) the assertion is left out
ThinAssertPanics_Never(th, k) == FALSE

\* assert!(!thin || !is_bsd_like(kind)) panics: is_bsd_like is only called, and
\* only panics itself, when thin is set
ThinAssertPanics(th, k) == th /\ (NotSupportedForWriting(k) \/ is_bsd_like(k))

CheckThin ==
    /\ pc = "assert"
    /\ pc' = IF ThinAssertPanics(thin, kind) THEN "panic" ELSE "count"
    /\ UNCHANGED << new_members, write_symtab, kind, deterministic, thin, caller_kind,
                    string_table, sym_names, member_names, filename_count, pos,
                    has_object, data, next_member, last_offset, next_write, w, error >>

unique_timestamps == deterministic /\ is_darwin(kind)

\* the first loop over new_members: how often each name occurs
CountNames(members) ==
    [n \in {members[i].member_name : i \in 1..Len(members)} |->
        Cardinality({i \in 1..Len(members) : members[i].member_name = n})]

\* (mutant) every counter starts from zero
ResetCount_Zero(count) == 0

\* the loop over filename_count.iter_mut()
ResetCount(count) == IF count > 1 THEN 1 ELSE count

\* compute_member_data up to its loop over the members
CountFilenames ==
    /\ pc = "count"
    /\ filename_count' =
           IF unique_timestamps
           THEN LET counted == CountNames(new_members)
                IN  [n \in DOMAIN counted |-> ResetCount(counted[n])]
           ELSE << >>
    /\ pc' = "members"
    /\ UNCHANGED << new_members, write_symtab, kind, deterministic, thin, caller_kind,
                    string_table, sym_names, member_names, pos, has_object, data,
                    next_member, last_offset, next_write, w, error >>

\* (mutant) the counter is used as the increment leaves it
UniqueTimestamp_NoDecrement(count) == U64FromInt(count)

\* the timestamp of a member under unique_timestamps, from its name's counter
\* as the increment leaves it
UniqueTimestamp(count) == U64FromInt(count - 1)

\* (mutant) the buffer is embedded in thin mode too
MemberSlice_Embedded(m) == m.buf

\* (mutant) a thin member is empty but still read as the object of its buffer
MemberSlice_ThinObject(m) ==
    IF thin THEN [EmptySlice EXCEPT !.obj = m.buf.obj] ELSE m.buf

\* let data = if thin { &[][..] } else { &m.buf }
MemberSlice(m) == IF thin THEN EmptySlice ELSE m.buf

MemberPadding(slice) == IF is_darwin(kind) THEN offset_to_alignment(slice.len, 8) ELSE 0

TailPadding(slice) == offset_to_alignment(AddInt(slice.len, MemberPadding(slice)), 2)

\* (mutant) no size is refused
MemberTooBig_Never(size) == FALSE

\* if size > MAX_MEMBER_SIZE { return Err(..) }
MemberTooBig(size) == Gt(size, MAX_MEMBER_SIZE)

\* one iteration of the loop of compute_member_data
ComputeMember ==
    /\ pc = "members"
    /\ next_member <= Len(new_members)
    /\ LET m == new_members[next_member]
           slice == MemberSlice(m)
           padding == Repeat(Ord("\n"), MemberPadding(slice) + TailPadding(slice))
           counts == IF unique_timestamps
                     THEN [filename_count EXCEPT ![m.member_name] = @ + 1]
                     ELSE filename_count
           mtime == IF unique_timestamps THEN UniqueTimestamp(counts[m.member_name])
                    ELSE m.mtime
           size == AddInt(slice.len, MemberPadding(slice))
       IN  /\ filename_count' = counts
           /\ IF MemberTooBig(size) THEN
                  /\ pc' = "error"
                  /\ error' = m.member_name
                  /\ UNCHANGED << string_table, member_names, sym_names, has_object,
                                  pos, data, next_member >>
              ELSE IF NotSupportedForWriting(kind) THEN
                  /\ pc' = "panic"
                  /\ UNCHANGED << string_table, member_names, sym_names, has_object,
                                  pos, data, next_member, error >>
              ELSE
                  LET h == print_member_header(pos, string_table, member_names, kind,
                                               thin, m, mtime, size)
                      g == IF write_symtab THEN get_symbols(slice, sym_names, has_object)
                           ELSE [ret |-> << >>, sym_names |-> sym_names,
                                 has_object |-> has_object]
                      md == MemberData(g.ret, h.header, slice, padding)
                  IN  /\ string_table' = h.string_table
                      /\ member_names' = h.member_names
                      /\ sym_names' = g.sym_names
                      /\ has_object' = g.has_object
                      /\ pos' = Add(pos, RecordLen(md))
                      /\ data' = Append(data, md)
                      /\ next_member' = next_member + 1
                      /\ UNCHANGED << pc, error >>
    /\ UNCHANGED << new_members, write_symtab, kind, deterministic, thin, caller_kind,
                    last_offset, next_write, w >>

\* (mutant) no name buffer is made up for objects without symbols
EmptySymbolTableNames_Unchanged(object_seen, names) == names

\* if has_object && sym_names.stream_position()? == 0 { write!(sym_names, "\0\0\0") }
EmptySymbolTableNames(object_seen, names) ==
    IF object_seen /\ Len(names) = 0 THEN << 0, 0, 0 >> ELSE names

\* (mutant) the string table member is put after the members
WithStringTable_Last(names, members) ==
    IF names # << >> THEN Append(members, compute_string_table(names)) ELSE members

\* if !string_table.is_empty() { data.insert(0, compute_string_table(&string_table)) }
WithStringTable(names, members) ==
    IF names # << >> THEN << compute_string_table(names) >> \o members ELSE members

\* the end of compute_member_data (the empty symbol table for objects without
\* symbols) and the string table member put in front of data
CollectMemberData ==
    /\ pc = "members"
    /\ next_member > Len(new_members)
    /\ sym_names' = EmptySymbolTableNames(has_object, sym_names)
    /\ data' = WithStringTable(string_table, data)
    /\ pc' = "sizing"
    /\ UNCHANGED << new_members, write_symtab, kind, deterministic, thin, caller_kind,
                    string_table, member_names, filename_count, pos, has_object,
                    next_member, last_offset, next_write, w, error >>

SYM64_THRESHOLD == TwoPow32

RECURSIVE LastMemberStart(_, _)
\* the loop of the sizing phase: where the last entry of members starts when the
\* first one starts at offset
LastMemberStart(members, offset) ==
    IF Len(members) <= 1 THEN offset
    ELSE LastMemberStart(Tail(members), Add(offset, RecordLen(Head(members))))

\* (mutant) the symbol table member is left out of the offset
TentativeLastOffset_NoSymtab(k, det, members, names) ==
    LastMemberStart(members, U64FromInt(8))

\* last_offset as the sizing phase compares it with the threshold
TentativeLastOffset(k, det, members, names) ==
    LET symtab == compute_symbol_table_size_and_pad(k, SumSymbols(members), 4, names)
        header == write_symbol_table_header(Zero, k, det, symtab.size)
    IN  Add(AddInt(LastMemberStart(members, U64FromInt(8)), Len(header)), symtab.size)

\* the kind to go on with once last_offset has reached the threshold
UpgradedKind(k) == IF k = "Darwin" THEN "Darwin64" ELSE "Gnu64"

\* if write_symtab { ... }: the 32-bit layout is tried and the kind upgraded
Sizing ==
    /\ pc = "sizing"
    /\ IF ~write_symtab THEN
           /\ pc' = "magic"
           /\ UNCHANGED << kind, last_offset >>
       ELSE IF NotSupportedForWriting(kind) \/ NowPanics(deterministic) THEN
           /\ pc' = "panic"
           /\ UNCHANGED << kind, last_offset >>
       ELSE
           LET tentative == TentativeLastOffset(kind, deterministic, data, sym_names)
           IN  /\ last_offset' = tentative
               /\ kind' = IF Ge(tentative, SYM64_THRESHOLD) THEN UpgradedKind(kind)
                          ELSE kind
               /\ pc' = "magic"
    /\ UNCHANGED << new_members, write_symtab, deterministic, thin, caller_kind,
                    string_table, sym_names, member_names, filename_count, pos,
                    has_object, data, next_member, next_write, w, error >>

Magic ==
    IF thin THEN Str(<< "!", "<", "t", "h", "i", "n", ">", "\n" >>)
    ELSE Str(<< "!", "<", "a", "r", "c", "h", ">", "\n" >>)

WriteMagic ==
    /\ pc = "magic"
    /\ w' = Append(w, Bytes(Magic))
    /\ pc' = "symtab"
    /\ UNCHANGED << new_members, write_symtab, kind, deterministic, thin, caller_kind,
                    string_table, sym_names, member_names, filename_count, pos,
                    has_object, data, next_member, last_offset, next_write, error >>

\* if write_symtab { write_symbol_table(...)? }
WriteSymbolTable ==
    /\ pc = "symtab"
    /\ LET r == IF write_symtab
                THEN write_symbol_table(StreamLen(w), kind, deterministic, data,
                                        sym_names)
                ELSE [written |-> << >>, panic |-> FALSE]
       IN  /\ w' = w \o r.written
           /\ pc' = IF r.panic THEN "panic" ELSE "write"
    /\ UNCHANGED << new_members, write_symtab, kind, deterministic, thin, caller_kind,
                    string_table, sym_names, member_names, filename_count, pos,
                    has_object, data, next_member, last_offset, next_write, error >>

\* one iteration of the final loop: header, data, padding
WriteMember ==
    /\ pc = "write"
    /\ next_write <= Len(data)
    /\ LET m == data[next_write]
       IN  w' = w \o << Bytes(m.header), m.data, Bytes(m.padding) >>
    /\ next_write' = next_write + 1
    /\ UNCHANGED << new_members, write_symtab, kind, deterministic, thin, caller_kind, pc,
                    string_table, sym_names, member_names, filename_count, pos,
                    has_object, data, next_member, last_offset, error >>

\* w.flush()
Flush ==
    /\ pc = "write"
    /\ next_write > Len(data)
    /\ pc' = "done"
    /\ UNCHANGED << new_members, write_symtab, kind, deterministic, thin, caller_kind,
                    string_table, sym_names, member_names, filename_count, pos,
                    has_object, data, next_member, last_offset, next_write, w, error >>

Next ==
    \/ CheckThin
    \/ CountFilenames
    \/ ComputeMember
    \/ CollectMemberData
    \/ Sizing
    \/ WriteMagic
    \/ WriteSymbolTable
    \/ WriteMember
    \/ Flush

Spec == Init /\ [][Next]_vars

SpecTimestamps == InitTimestamps /\ [][Next]_vars

SpecNames == InitNames /\ [][Next]_vars

SpecWide == InitWide /\ [][Next]_vars

SpecScenario == InitScenario /\ [][Next]_vars

SpecThreshold == InitThreshold /\ [][Next]_vars

(***************************************************************************)
(* Reading an archive back: what the properties below decode from the      *)
(* bytes of the sink.                                                      *)
(***************************************************************************)
RECURSIVE TrimRight(_)
\* without its trailing spaces
TrimRight(t) ==
    IF t # << >> /\ t[Len(t)] = Ord(" ") THEN TrimRight(SubSeq(t, 1, Len(t) - 1)) ELSE t

RECURSIVE ParseInt(_)
\* the number a string of decimal digits denotes (at most 9 digits)
ParseInt(t) ==
    IF t = << >> THEN 0
    ELSE 10 * ParseInt(SubSeq(t, 1, Len(t) - 1)) + (t[Len(t)] - Ord("0"))

\* the u64 a string of decimal digits denotes
ParseU64(t) ==
    IF Len(t) <= 9 THEN U64(0, ParseInt(t))
    ELSE U64(ParseInt(SubSeq(t, 1, Len(t) - 9)), ParseInt(SubSeq(t, Len(t) - 8, Len(t))))

\* a * 256
Times256(a) ==
    LET l1 == (a.lo \div 1000000) * 256
        low == (l1 % 1000) * 1000000 + (a.lo % 1000000) * 256
    IN  [hi |-> a.hi * 256 + (l1 \div 1000) + (low \div Base), lo |-> low % Base]

RECURSIVE FromBeBytes(_)
\* the u64 that big-endian bytes denote
FromBeBytes(t) ==
    IF t = << >> THEN Zero
    ELSE AddInt(Times256(FromBeBytes(SubSeq(t, 1, Len(t) - 1))), t[Len(t)])

FromLeBytes(t) == FromBeBytes(Reverse(t))

\* the fields of the 60 bytes every header starts with
HeaderName(h) == SubSeq(h, 1, 16)
HeaderMtime(h) == TrimRight(SubSeq(h, 17, 28))
HeaderUid(h) == TrimRight(SubSeq(h, 29, 34))
HeaderGid(h) == TrimRight(SubSeq(h, 35, 40))
HeaderPerms(h) == TrimRight(SubSeq(h, 41, 48))
HeaderSize(h) == TrimRight(SubSeq(h, 49, 58))

\* the name after a BSD header ("#1/<length>"), with its NUL padding
BsdName(h) == SubSeq(h, 61, Len(h))

IsBsdHeader(h) == Len(h) >= 60 /\ SubSeq(h, 1, 3) = Str(<< "#", "1", "/" >>)

StartsWith(t, prefix) == Len(t) >= Len(prefix) /\ SubSeq(t, 1, Len(prefix)) = prefix

\* The layout a reader takes a member for the symbol table in, by its name: the
\* family and the width of the offsets; "none" when it is no symbol table.
SymtabLayout(h) ==
    IF Len(h) < 60 THEN [family |-> "none", width |-> 0]
    ELSE IF HeaderName(h) = PadRight(Str(<< "/" >>), 16)
        THEN [family |-> "gnu", width |-> 4]
    ELSE IF HeaderName(h) = PadRight(Str(<< "/", "S", "Y", "M", "6", "4", "/" >>), 16)
        THEN [family |-> "gnu", width |-> 8]
    ELSE IF IsBsdHeader(h)
            /\ StartsWith(BsdName(h), Str(<< "_", "_", ".", "S", "Y", "M", "D", "E", "F",
                                             "_", "6", "4" >>))
        THEN [family |-> "bsd", width |-> 8]
    ELSE IF IsBsdHeader(h)
            /\ StartsWith(BsdName(h), Str(<< "_", "_", ".", "S", "Y", "M", "D", "E", "F" >>))
        THEN [family |-> "bsd", width |-> 4]
    ELSE [family |-> "none", width |-> 0]

\* the sink holds the magic and then a symbol table member
SymtabEmitted ==
    /\ Len(w) >= 3
    /\ w[2].explicit
    /\ SymtabLayout(w[2].bytes).family # "none"

Layout == SymtabLayout(w[2].bytes)

\* the slices the sink holds before the first member of data
Preamble == IF SymtabEmitted THEN 3 ELSE 1

\* where the k-th entry of data has its header, data and padding in the sink
HeaderAt(k) == Preamble + 3 * (k - 1) + 1

\* the first member after the symbol table is the string table member "//"
HasStringTableMember ==
    /\ Len(w) >= Preamble + 3
    /\ StartsWith(w[Preamble + 1].bytes, PadRight(Str(<< "/", "/" >>), 48))

\* the payload of the "//" member
StringTableBytes == IF HasStringTableMember THEN w[Preamble + 2].bytes ELSE << >>

\* the entry of data that new_members[i] became
DataIndex(i) == IF HasStringTableMember THEN i + 1 ELSE i

\* the header written for new_members[i]
MemberHeader(i) == w[HeaderAt(DataIndex(i))].bytes

\* the timestamp in the header written for new_members[i]
MemberTimestamp(i) == ParseU64(HeaderMtime(MemberHeader(i)))

\* the byte offset at which the n-th slice of the sink starts
OffsetOfSlice(n) == StreamLen(SubSeq(w, 1, n - 1))

\* the number its bytes a..b give the reader of the symbol table
SymtabField(a, b) ==
    IF Layout.family = "bsd" THEN FromLeBytes(SubSeq(w[3].bytes, a, b))
    ELSE FromBeBytes(SubSeq(w[3].bytes, a, b))

\* the member offset the symbol table gives for its s-th symbol
SymbolMemberOffset(s) ==
    LET width == Layout.width
        at == IF Layout.family = "bsd" THEN width + (s - 1) * 2 * width + width
              ELSE width + (s - 1) * width
    IN  SymtabField(at + 1, at + width)

\* the symbols of new_members[i] that a linker may resolve: global definitions
\* of the payload that is embedded
Defined(i) ==
    LET syms == new_members[i].buf.obj.syms
    IN  IF thin \/ ~new_members[i].buf.obj.ok THEN {}
        ELSE {j \in 1..Len(syms) : syms[j].global /\ syms[j].definition}

RECURSIVE DefinedBefore(_)
\* how many symbols the members before new_members[i] define
DefinedBefore(i) == IF i <= 1 THEN 0 ELSE DefinedBefore(i - 1) + Cardinality(Defined(i - 1))

\* C1: once the call has returned Ok with a symbol table member in the output,
\* the member offset of every symbol is the byte offset of the output at which
\* the header of the member that defines it starts.
C1_SymbolOffsets ==
    (pc = "done" /\ SymtabEmitted) =>
        \A i \in 1..Len(new_members) :
            \A n \in 1..Cardinality(Defined(i)) :
                SymbolMemberOffset(DefinedBefore(i) + n)
                    = OffsetOfSlice(HeaderAt(DataIndex(i)))

\* C1 witness: an archive with a "//" member, whose symbol table was upgraded to
\* 64 bits and places a symbol's member beyond 2^32
C1_Witness ==
    /\ pc = "done"
    /\ SymtabEmitted
    /\ string_table # << >>
    /\ kind # caller_kind
    /\ \E i \in 1..Len(new_members) :
           /\ Defined(i) # {}
           /\ Ge(OffsetOfSlice(HeaderAt(DataIndex(i))), TwoPow32)
           /\ SymbolMemberOffset(DefinedBefore(i) + 1) = OffsetOfSlice(HeaderAt(DataIndex(i)))

\* the 64-bit kind of the same family
Counterpart(k) ==
    CASE k \in {"Gnu", "Gnu64"} -> "Gnu64"
      [] k \in {"Darwin", "Darwin64"} -> "Darwin64"
      [] OTHER -> k

\* C2 (as claimed): when the symbol table is requested and the tentative 32-bit
\* layout puts the start of the last member at or beyond 2^32, the kind used
\* for emission is the 64-bit counterpart of the caller's kind, with offsets of
\* 8 bytes, and the family is the caller's: a BSD-like kind is not emitted as a
\* GNU kind and a 64-bit kind is unchanged.
C2_UpgradeKeepsFamily ==
    (pc = "done" /\ write_symtab /\ Ge(last_offset, SYM64_THRESHOLD)) =>
        /\ caller_kind \in {"Gnu", "Darwin"} => kind = Counterpart(caller_kind)
        /\ is_64bit_kind(caller_kind) => kind = caller_kind
        /\ is_bsd_like(kind) = is_bsd_like(caller_kind)
        /\ SymtabEmitted =>
               /\ Layout.width = 8
               /\ Layout.family = IF is_bsd_like(caller_kind) THEN "bsd" ELSE "gnu"

\* how many of the members up to new_members[i] have its name
Occurrence(i) ==
    Cardinality({j \in 1..i : new_members[j].member_name = new_members[i].member_name})

\* the name of new_members[i] is the name of another member too
Duplicated(i) ==
    \E j \in 1..Len(new_members) :
        j # i /\ new_members[j].member_name = new_members[i].member_name

\* the archive is complete and was written for a Darwin kind, deterministically
DarwinDeterministicDone == pc = "done" /\ is_darwin(caller_kind) /\ deterministic

\* C3 (as claimed): with a Darwin kind and deterministic = true, the members
\* that share a duplicated name get the header timestamps 0, 1, 2, ... in
\* input order.
C3_TimestampsFromZero ==
    DarwinDeterministicDone =>
        \A i \in 1..Len(new_members) :
            Duplicated(i) => MemberTimestamp(i) = U64FromInt(Occurrence(i) - 1)

\* C3 (amended): with a Darwin kind and deterministic = true, the members that
\* share a duplicated name get the header timestamps 1, 2, 3, ... in input
\* order, in place of their own mtime.
C3_TimestampsFromOne ==
    DarwinDeterministicDone =>
        \A i \in 1..Len(new_members) :
            Duplicated(i) => MemberTimestamp(i) = U64FromInt(Occurrence(i))

\* C3 witness: three members of one name, none of which keeps its mtime
C3_Witness ==
    /\ DarwinDeterministicDone
    /\ \E i \in 1..Len(new_members) :
           /\ Occurrence(i) = 3
           /\ MemberTimestamp(i) = U64FromInt(3)
           /\ new_members[i].mtime # U64FromInt(3)
           /\ \E j \in 1..(i - 1) : new_members[j].mtime # new_members[i].mtime

\* C4 (as claimed): with a Darwin kind and deterministic = true, a member whose
\* name occurs once in the input has its own mtime in its header.
C4_UniqueNameKeepsMtime ==
    DarwinDeterministicDone =>
        \A i \in 1..Len(new_members) :
            ~Duplicated(i) => MemberTimestamp(i) = new_members[i].mtime

\* C5: with a Darwin kind and deterministic = true, a member whose name is
\* duplicated has a timestamp other than zero, and of two members of one name
\* the later one has the larger timestamp.
C5_DuplicateTimestamps ==
    DarwinDeterministicDone =>
        \A i \in 1..Len(new_members) :
            Duplicated(i) =>
                /\ MemberTimestamp(i) # Zero
                /\ \A j \in (i + 1)..Len(new_members) :
                       new_members[j].member_name = new_members[i].member_name
                           => Gt(MemberTimestamp(j), MemberTimestamp(i))

\* C5 witness: the later of two members of one name has the smaller mtime and
\* the larger timestamp
C5_Witness ==
    /\ DarwinDeterministicDone
    /\ \E i \in 1..Len(new_members) : \E j \in (i + 1)..Len(new_members) :
           /\ new_members[j].member_name = new_members[i].member_name
           /\ Gt(new_members[i].mtime, new_members[j].mtime)
           /\ Gt(MemberTimestamp(j), MemberTimestamp(i))
           /\ MemberTimestamp(i) # Zero

\* where the record of the string table that starts at byte from ends: at its
\* first "/" that a newline follows, or with the table
EntryEnd(st, from) ==
    LET ends == {e \in from..(Len(st) - 1) : st[e] = Ord("/") /\ st[e + 1] = Ord("\n")}
    IN  IF ends = {} THEN Len(st) + 1 ELSE CHOOSE e \in ends : \A f \in ends : e <= f

RECURSIVE StringTableEntries(_, _)
\* the records of a string table from byte from on: their offsets and names
StringTableEntries(st, from) ==
    IF from > Len(st) THEN << >>
    ELSE LET e == EntryEnd(st, from)
         IN  << [offset |-> from - 1, name |-> SubSeq(st, from, e - 1)] >>
                 \o StringTableEntries(st, e + 2)

\* a name the 16 bytes of a GNU header cannot hold: 16 bytes or more, or a "/"
LongOrIrregular(name) == Len(name) >= 16 \/ \E p \in 1..Len(name) : name[p] = Ord("/")

\* the archive is complete, GNU and not thin
GnuNonThinDone == pc = "done" /\ caller_kind \in {"Gnu", "Gnu64"} /\ ~thin

\* C6: in a GNU archive that is not thin, every name that goes to the string
\* table is there once, and the header of every member of that name refers to
\* the offset of that one record.
C6_StringTableDeduplicated ==
    GnuNonThinDone =>
        LET entries == StringTableEntries(StringTableBytes, 1)
        IN  \A i \in 1..Len(new_members) :
                LongOrIrregular(new_members[i].member_name) =>
                    LET found == {k \in 1..Len(entries) :
                                      entries[k].name = new_members[i].member_name}
                    IN  /\ Cardinality(found) = 1
                        /\ \A k \in found :
                               HeaderName(MemberHeader(i))
                                   = PadRight(Str(<< "/" >>) \o DecInt(entries[k].offset), 16)

\* C6 witness: two members share a name of 16 bytes, a third member's name is in
\* the string table after theirs, and both refer to offset 0
C6_Witness ==
    /\ GnuNonThinDone
    /\ Len(StringTableEntries(StringTableBytes, 1)) = 2
    /\ \E i \in 1..Len(new_members) : \E j \in (i + 1)..Len(new_members) :
           /\ new_members[i].member_name = new_members[j].member_name
           /\ Len(new_members[i].member_name) = 16
           /\ new_members[i].buf # new_members[j].buf
           /\ HeaderName(MemberHeader(i)) = PadRight(Str(<< "/", "0" >>), 16)
           /\ HeaderName(MemberHeader(j)) = HeaderName(MemberHeader(i))

\* C7: a call with thin = true and a BSD-like kind never gets past its first
\* step, where it panics, and never writes a byte.
C7_ThinBsdFailsFirst ==
    (thin /\ caller_kind \in {"Bsd", "Darwin", "Darwin64"}) =>
        /\ pc \in {"assert", "panic"}
        /\ w = << >>
        /\ data = << >>

\* C7 witness: such a call, with members and a symbol table asked for, has failed
C7_Witness ==
    /\ thin
    /\ caller_kind = "Darwin"
    /\ new_members # << >>
    /\ write_symtab
    /\ pc = "panic"
    /\ w = << >>

\* C8 (as claimed): a call with a kind that is not supported for writing fails
\* before it writes a byte, whatever the members and the flags.
C8_UnsupportedKindFails ==
    caller_kind \in {"Coff", "AixBig"} => (pc # "done" /\ w = << >>)

\* C9 (as claimed): with the symbol table requested, a complete archive of a
\* Darwin kind has a symbol table member right after the magic, and a complete
\* GNU archive of no members has none.
C9_DarwinAlwaysSymtab ==
    (pc = "done" /\ write_symtab) =>
        /\ is_darwin(caller_kind) => SymtabEmitted
        /\ (caller_kind \in {"Gnu", "Gnu64"} /\ new_members = << >>) => ~SymtabEmitted

\* the archive is complete, with the symbol table requested, for Gnu, Gnu64 or Bsd
NonDarwinSymtabDone ==
    pc = "done" /\ write_symtab /\ caller_kind \in {"Gnu", "Gnu64", "Bsd"}

\* some member's embedded payload parses as an object
SomeObject == ~thin /\ \E i \in 1..Len(new_members) : new_members[i].buf.obj.ok

\* no symbol was extracted from any member
NoSymbols == \A i \in 1..Len(new_members) : Defined(i) = {}

\* C10 (as claimed): for Gnu, Gnu64 and Bsd with the symbol table requested, no
\* symbol table member is written when no symbol was extracted from any member.
C10_OmittedWithoutSymbols == (NonDarwinSymtabDone /\ NoSymbols) => ~SymtabEmitted

\* C10 (amended): for Gnu, Gnu64 and Bsd with the symbol table requested, the
\* symbol table member is left out exactly when no member parses as an object;
\* when one does and no symbol qualifies, a symbol table of zero symbols is
\* written.
C10_OmittedWithoutObjects ==
    NonDarwinSymtabDone =>
        /\ SymtabEmitted <=> SomeObject
        /\ (SomeObject /\ NoSymbols) => SymtabField(1, Layout.width) = Zero

\* C10 witness: an object without a qualifying symbol got an empty symbol table
C10_Witness ==
    /\ NonDarwinSymtabDone
    /\ SomeObject
    /\ NoSymbols
    /\ SymtabEmitted
    /\ SymtabField(1, Layout.width) = Zero

\* the bytes of the k-th entry of data in the sink: header, data and padding
WrittenRecordLen(k) ==
    Add(Add(w[HeaderAt(k)].len, w[HeaderAt(k) + 1].len), w[HeaderAt(k) + 2].len)

\* the payload of new_members[i] in the sink, with the padding after it
PaddedPayloadLen(i) ==
    Add(w[HeaderAt(DataIndex(i)) + 1].len, w[HeaderAt(DataIndex(i)) + 2].len)

\* C11 (as claimed): in a complete archive every member record (header, payload
\* and padding, the "//" member included) has even length, and for a Darwin
\* kind the payload of every input member with its padding is a multiple of 8.
C11_RecordsEven ==
    pc = "done" =>
        /\ \A k \in 1..Len(data) : ModSmall(WrittenRecordLen(k), 2) = 0
        /\ is_darwin(caller_kind) =>
               \A i \in 1..Len(new_members) : ModSmall(PaddedPayloadLen(i), 8) = 0

\* C12 (as claimed): in a complete archive of a BSD-like kind, with or without
\* a symbol table, the payload of every input member starts at an offset of
\* the output that is a multiple of 8.
C12_PayloadAligned ==
    (pc = "done" /\ caller_kind \in {"Bsd", "Darwin", "Darwin64"}) =>
        \A i \in 1..Len(new_members) :
            ModSmall(OffsetOfSlice(HeaderAt(DataIndex(i)) + 1), 8) = 0

RECURSIVE TrimNuls(_)
\* without its trailing NUL bytes
TrimNuls(t) ==
    IF t # << >> /\ t[Len(t)] = 0 THEN TrimNuls(SubSeq(t, 1, Len(t) - 1)) ELSE t

\* a - n
Sub(a, n) ==
    IF a.lo >= n THEN [hi |-> a.hi, lo |-> a.lo - n]
    ELSE [hi |-> a.hi - 1, lo |-> a.lo + Base - n]

\* the length that "#1/<length>" gives for the name after a BSD header
BsdNameLen(h) == ParseInt(TrimRight(SubSeq(h, 4, 16)))

\* a GNU header whose name is "/<offset>": the name is in the string table
IsStringTableRef(h) == Len(h) >= 16 /\ h[1] = Ord("/") /\ h[2] \in Ord("0")..Ord("9")

\* the offset of such a header
StringTableRef(h) == ParseInt(TrimRight(SubSeq(h, 2, 16)))

\* the name a reader takes from a header: the BSD extended name, the record of
\* the string table, or the inline field up to its "/"
DecodedName(h) ==
    IF IsBsdHeader(h) THEN TrimNuls(SubSeq(h, 61, 60 + BsdNameLen(h)))
    ELSE IF IsStringTableRef(h) THEN
        LET from == StringTableRef(h) + 1
        IN  SubSeq(StringTableBytes, from, EntryEnd(StringTableBytes, from) - 1)
    ELSE LET field == TrimRight(HeaderName(h))
         IN  SubSeq(field, 1, Len(field) - 1)

\* the size a reader takes from a header: the size field, less the length of
\* the BSD extended name
DecodedSize(h) ==
    IF IsBsdHeader(h) THEN Sub(ParseU64(HeaderSize(h)), BsdNameLen(h))
    ELSE ParseU64(HeaderSize(h))

\* no two members have the same name
NonColliding ==
    \A i, j \in 1..Len(new_members) :
        i # j => new_members[i].member_name # new_members[j].member_name

\* the number of entries of data the sink holds after the symbol table
WrittenEntries == (Len(w) - Preamble) \div 3

\* C13 (as claimed): for members of different names and a supported kind, the
\* headers of a complete archive that is not thin read back as the names and
\* the payload lengths of the input members, in input order.
C13_HeadersReadBack ==
    (pc = "done" /\ ~thin /\ ~NotSupportedForWriting(caller_kind) /\ NonColliding) =>
        /\ WrittenEntries = Len(new_members) + (IF HasStringTableMember THEN 1 ELSE 0)
        /\ \A i \in 1..Len(new_members) :
               /\ DecodedName(MemberHeader(i)) = new_members[i].member_name
               /\ DecodedSize(MemberHeader(i)) = new_members[i].buf.len

\* the length of the payload of new_members[i] as the archive is to hold it,
\* with the padding of a Darwin kind
PaddedSize(i) ==
    LET len == IF thin THEN Zero ELSE new_members[i].buf.len
    IN  AddInt(len, IF is_darwin(caller_kind) THEN offset_to_alignment(len, 8) ELSE 0)

Oversized(i) == Gt(PaddedSize(i), MAX_MEMBER_SIZE)

\* the first member that is oversized, 0 when none is
FirstOversized ==
    LET over == {i \in 1..Len(new_members) : Oversized(i)}
    IN  IF over = {} THEN 0 ELSE CHOOSE i \in over : \A j \in over : i <= j

ScenarioDone ==
    /\ pc = "done"
    /\ caller_kind = "Gnu" /\ deterministic /\ ~write_symtab /\ ~thin
    /\ Len(new_members) = 2
    /\ new_members[1].member_name = NameA /\ new_members[1].buf = Zeros(500)
    /\ new_members[2].member_name = NameBo /\ new_members[2].buf = Zeros(10)

\* text, then spaces up to width
Column(text, width) == text \o Repeat(Ord(" "), width - Len(text))

\* the 44 bytes after the name of a header whose mtime, uid, gid and
\* permissions are 0
ZeroFields(size) ==
    Column(Str(<< "0" >>), 12) \o Column(Str(<< "0" >>), 6) \o Column(Str(<< "0" >>), 6)
        \o Column(Str(<< "0" >>), 8) \o Column(size, 10) \o << Backtick, Ord("\n") >>

\* the same for mtime 5, uid 1000, gid 100 and permissions 0o644
OwnFields(size) ==
    Column(Str(<< "5" >>), 12) \o Column(Str(<< "1", "0", "0", "0" >>), 6)
        \o Column(Str(<< "1", "0", "0" >>), 6) \o Column(Str(<< "6", "4", "4" >>), 8)
        \o Column(size, 10) \o << Backtick, Ord("\n") >>

\* the output of the scenario when its headers start with the given names
ScenarioOutput(name1, fields1, name2) ==
    << Bytes(Str(<< "!", "<", "a", "r", "c", "h", ">", "\n" >>)),
       Bytes(Column(name1, 16) \o fields1),
       Zeros(500),
       Bytes(<< >>),
       Bytes(Column(name2, 16) \o ZeroFields(Str(<< "1", "0" >>))),
       Zeros(10),
       Bytes(<< >>) >>

\* C15 (as claimed): the output of the scenario is the magic, the header "a/"
\* in 16 characters with mtime, uid, gid and permissions 0 and size 500, the
\* 500 payload bytes without padding, and the same for "b/" with size 10.
C15_ScenarioAsClaimed ==
    ScenarioDone =>
        w = ScenarioOutput(Str(<< "a", "/" >>), ZeroFields(Str(<< "5", "0", "0" >>)),
                           Str(<< "b", "/" >>))

\* C15 (amended): the headers of the scenario start with the whole member name
\* and a "/", "a.o/" and "b.o/", in 16 characters, and carry the member's own
\* mtime, uid, gid and permissions, which deterministic does not change: 0
\* where the member has 0.
C15_ScenarioOutput ==
    ScenarioDone =>
        w = ScenarioOutput(Str(<< "a", ".", "o", "/" >>),
                           IF new_members[1].mtime = Zero
                           THEN ZeroFields(Str(<< "5", "0", "0" >>))
                           ELSE OwnFields(Str(<< "5", "0", "0" >>)),
                           Str(<< "b", ".", "o", "/" >>))

\* C15 witness: the scenario with mtime, uid, gid and permissions 0 is complete,
\* its output has the magic and two records, 8 + 560 + 70 bytes
C15_Witness ==
    /\ ScenarioDone
    /\ new_members[1].mtime = Zero /\ new_members[1].perms = 0
    /\ Len(w) = 7
    /\ StreamLen(w) = U64FromInt(638)
    /\ SubSeq(w[2].bytes, 1, 4) = Str(<< "a", ".", "o", "/" >>)

\* a GNU archive with a member whose name goes to the string table
StringTableNeeded ==
    /\ caller_kind \in {"Gnu", "Gnu64"}
    /\ \E i \in 1..Len(new_members) : thin \/ LongOrIrregular(new_members[i].member_name)

\* the name a member record was written for: the name that ends a BSD header,
\* else the name a GNU header holds or refers to
RecordName(h) ==
    IF IsBsdHeader(h)
    THEN TrimNuls(SubSeq(h, Len(h) - BsdNameLen(h) + 1, Len(h)))
    ELSE DecodedName(h)

\* C16: a complete archive is the magic, then the symbol table member if there
\* is one (only when it was requested), then the "//" member if a name went to
\* the string table, then one record per input member and nothing else: the
\* i-th record has the name and the payload of the i-th input member.
C16_LayoutOrder ==
    pc = "done" =>
        /\ w[1].bytes \in {Str(<< "!", "<", "a", "r", "c", "h", ">", "\n" >>),
                           Str(<< "!", "<", "t", "h", "i", "n", ">", "\n" >>)}
        /\ SymtabEmitted => write_symtab
        /\ HasStringTableMember <=> StringTableNeeded
        /\ Len(w) = Preamble + 3 * WrittenEntries
        /\ WrittenEntries = Len(new_members) + (IF HasStringTableMember THEN 1 ELSE 0)
        /\ \A i \in 1..Len(new_members) :
               /\ RecordName(MemberHeader(i)) = new_members[i].member_name
               /\ w[HeaderAt(DataIndex(i)) + 1]
                      = (IF thin THEN EmptySlice ELSE new_members[i].buf)

\* C16 witness: a complete archive with a symbol table member, a "//" member
\* and two members of different names and payloads after them, in input order
C16_Witness ==
    /\ pc = "done"
    /\ SymtabEmitted
    /\ HasStringTableMember
    /\ Len(new_members) = 2
    /\ Len(w) = 12
    /\ new_members[1].member_name # new_members[2].member_name
    /\ new_members[1].buf # new_members[2].buf
    /\ RecordName(w[7].bytes) = new_members[1].member_name
    /\ w[8] = new_members[1].buf
    /\ RecordName(w[10].bytes) = new_members[2].member_name
    /\ w[11] = new_members[2].buf

\* C17: in thin mode the output starts with "!<thin>\n" from its first byte on;
\* in the complete archive every input member has its header only, with no
\* payload and no padding after it, and the header refers to the string table,
\* where the member's name is; the archive holds nothing but the magic, the
\* symbol table member if any, the "//" member and these headers.
C17_ThinHeadersOnly ==
    thin =>
        /\ w # << >> => w[1].bytes = Str(<< "!", "<", "t", "h", "i", "n", ">", "\n" >>)
        /\ pc = "done" =>
               /\ new_members # << >> => HasStringTableMember
               /\ \A i \in 1..Len(new_members) :
                      /\ w[HeaderAt(DataIndex(i)) + 1].len = Zero
                      /\ w[HeaderAt(DataIndex(i)) + 2].len = Zero
                      /\ IsStringTableRef(MemberHeader(i))
                      /\ DecodedName(MemberHeader(i)) = new_members[i].member_name
               /\ Len(w) = Preamble + 3 * WrittenEntries
               /\ WrittenEntries
                      = Len(new_members) + (IF HasStringTableMember THEN 1 ELSE 0)

\* C17 witness: a complete thin archive of three members; one has a short name
\* and a payload of 3 bytes, one a payload of 24 bytes
C17_Witness ==
    /\ thin
    /\ pc = "done"
    /\ Len(new_members) = 3
    /\ \E i, j \in 1..3 :
           /\ new_members[i].member_name = NameA
           /\ new_members[i].buf.len = U64FromInt(3)
           /\ IsStringTableRef(MemberHeader(i))
           /\ new_members[j].buf.len = U64FromInt(24)
           /\ w[HeaderAt(DataIndex(j)) + 1].len = Zero

\* C18: in deterministic mode the header of the symbol table member, once
\* written, has the timestamp 0 and uid, gid and permissions 0, whatever the
\* kind, the members and their mtimes.
C18_SymtabTimestampZero ==
    (deterministic /\ SymtabEmitted) =>
        /\ HeaderMtime(w[2].bytes) = Str(<< "0" >>)
        /\ HeaderUid(w[2].bytes) = Str(<< "0" >>)
        /\ HeaderGid(w[2].bytes) = Str(<< "0" >>)
        /\ HeaderPerms(w[2].bytes) = Str(<< "0" >>)

\* C18 witness: a complete deterministic archive with a symbol table member
\* whose header has timestamp 0, and a member that defines a symbol and has
\* another timestamp, uid and permissions in its own header
C18_Witness ==
    /\ pc = "done"
    /\ deterministic
    /\ SymtabEmitted
    /\ HeaderMtime(w[2].bytes) = Str(<< "0" >>)
    /\ \E i \in 1..Len(new_members) :
           /\ Defined(i) # {}
           /\ new_members[i].mtime # Zero
           /\ MemberTimestamp(i) # Zero
           /\ HeaderUid(MemberHeader(i)) # Str(<< "0" >>)
           /\ HeaderPerms(MemberHeader(i)) # Str(<< "0" >>)

\* the payload of new_members[i], as embedded, does not parse as an object
Unparseable(i) == thin \/ ~new_members[i].buf.obj.ok

RECURSIVE SymbolNames(_)
\* the names of the global definitions among syms, each with its NUL
SymbolNames(syms) ==
    IF syms = << >> THEN << >>
    ELSE (IF Head(syms).global /\ Head(syms).definition THEN Head(syms).name \o << 0 >>
          ELSE << >>) \o SymbolNames(Tail(syms))

RECURSIVE NamesOfObjects(_)
\* the symbol names of the first n members, those that do not parse left out
NamesOfObjects(n) ==
    IF n = 0 THEN << >>
    ELSE NamesOfObjects(n - 1)
             \o (IF Unparseable(n) THEN << >> ELSE SymbolNames(new_members[n].buf.obj.syms))

\* C19: with the symbol table requested, a member whose payload does not parse
\* as an object gets no symbol and leaves the name buffer and has_object as
\* they were, the loop goes on to the next member, the only error of the call is
\* that of an oversized member, and the complete archive holds the payload of
\* every such member and all the members after it.
C19_UnparseableMemberSkipped ==
    write_symtab =>
        /\ pc = "members" =>
               /\ Len(data) = next_member - 1
               /\ \A i \in 1..Len(data) :
                      Unparseable(i) =>
                          /\ data[i].symbols = << >>
                          /\ data[i].data = (IF thin THEN EmptySlice ELSE new_members[i].buf)
               /\ sym_names = NamesOfObjects(Len(data))
               /\ has_object <=> \E i \in 1..Len(data) : ~Unparseable(i)
        /\ pc = "error" => Oversized(next_member)
        /\ pc = "done" =>
               /\ WrittenEntries = Len(new_members) + (IF HasStringTableMember THEN 1 ELSE 0)
               /\ \A i \in 1..Len(new_members) :
                      Unparseable(i) =>
                          w[HeaderAt(DataIndex(i)) + 1]
                              = (IF thin THEN EmptySlice ELSE new_members[i].buf)

\* C19 witness: a complete archive whose first member does not parse and whose
\* second member is an object: the symbol table has the symbol of the second
\* member, at the offset of that member, and the payload of the first is there
C19_Witness ==
    /\ pc = "done"
    /\ write_symtab /\ ~thin
    /\ Len(new_members) = 2
    /\ Unparseable(1)
    /\ Defined(2) # {}
    /\ SymtabEmitted
    /\ sym_names = SymbolNames(new_members[2].buf.obj.syms)
    /\ SymbolMemberOffset(1) = OffsetOfSlice(HeaderAt(DataIndex(2)))
    /\ w[HeaderAt(DataIndex(1)) + 1] = new_members[1].buf

\* C20 (as claimed): the block that ends a member header is 44 bytes for every
\* mtime, uid, gid, permissions and size, so that a GNU header, and a BSD
\* header without its name, is 60 bytes and ends with the backtick and the
\* newline.
C20_FixedWidthHeaders ==
    \A k \in 1..Len(data) :
        LET h == data[k].header
        IN  /\ Len(h) = 60 + (IF IsBsdHeader(h) THEN BsdNameLen(h) ELSE 0)
            /\ h[59] = Backtick
            /\ h[60] = Ord("\n")

\* the header h refers to an offset of the string table st where a record
\* starts that is name, "/" and a newline
RefersToName(h, st, name) ==
    LET o == StringTableRef(h)
    IN  /\ o + Len(name) + 2 <= Len(st)
        /\ SubSeq(st, o + 1, o + Len(name) + 2) = name \o Str(<< "/", "\n" >>)
        /\ o = 0 \/ st[o] = Ord("\n")

\* C21: for a GNU kind, at every point of the loop over the members and in the
\* complete archive, every header "/<offset>" refers to the offset of the
\* string table where a record with the member's name is: what a later
\* insertion adds leaves it there.  In thin mode every member has such a
\* header and a record of its own, also when names are the same; otherwise the
\* offset is the one kept for the name.
C21_StringTableReferences ==
    caller_kind \in {"Gnu", "Gnu64"} =>
        /\ pc = "members" =>
               /\ \A i \in 1..Len(data) :
                      /\ IsStringTableRef(data[i].header) =>
                             RefersToName(data[i].header, string_table,
                                          new_members[i].member_name)
                      /\ thin => IsStringTableRef(data[i].header)
                      /\ (~thin /\ IsStringTableRef(data[i].header)) =>
                             member_names[new_members[i].member_name]
                                 = U64FromInt(StringTableRef(data[i].header))
               /\ thin =>
                      \A i, j \in 1..Len(data) :
                          i # j => StringTableRef(data[i].header)
                                       # StringTableRef(data[j].header)
        /\ pc = "done" =>
               /\ \A i \in 1..Len(new_members) :
                      /\ IsStringTableRef(MemberHeader(i)) =>
                             RefersToName(MemberHeader(i), StringTableBytes,
                                          new_members[i].member_name)
                      /\ thin => IsStringTableRef(MemberHeader(i))
               /\ thin =>
                      /\ Len(StringTableEntries(StringTableBytes, 1)) = Len(new_members)
                      /\ \A i, j \in 1..Len(new_members) :
                             i # j => StringTableRef(MemberHeader(i))
                                          # StringTableRef(MemberHeader(j))

\* C21 witness: a complete thin archive of three members, the first and the
\* last of one name: three records, and the two headers refer to different ones
C21_Witness ==
    /\ thin
    /\ pc = "done"
    /\ Len(new_members) = 3
    /\ new_members[1].member_name = new_members[3].member_name
    /\ new_members[2].member_name # new_members[1].member_name
    /\ Len(StringTableEntries(StringTableBytes, 1)) = 3
    /\ StringTableRef(MemberHeader(1)) = 0
    /\ StringTableRef(MemberHeader(3)) > StringTableRef(MemberHeader(2))
    /\ RefersToName(MemberHeader(3), StringTableBytes, new_members[1].member_name)

IsDefinition(sym) == sym.global /\ sym.definition

RECURSIVE SymbolsUpTo(_)
\* the symbols a linker may resolve in the first n members, in member order and
\* within a member in the order of its object: their names and members
SymbolsUpTo(n) ==
    IF n = 0 THEN << >>
    ELSE LET own == IF Unparseable(n) THEN << >>
                    ELSE SelectSeq(new_members[n].buf.obj.syms, IsDefinition)
         IN  SymbolsUpTo(n - 1) \o [k \in 1..Len(own) |-> [name |-> own[k].name, member |-> n]]

AllSymbols == SymbolsUpTo(Len(new_members))

RECURSIVE NameOffset(_)
\* where the name of the s-th symbol starts in the name buffer
NameOffset(s) == IF s = 1 THEN 0 ELSE NameOffset(s - 1) + Len(AllSymbols[s - 1].name) + 1

\* the name buffer: every name with its NUL, or three NULs for objects without
\* a symbol
ExpectedNames ==
    LET names == NamesOfObjects(Len(new_members))
    IN  IF names = << >> /\ SomeObject THEN << 0, 0, 0 >> ELSE names

\* the body of the symbol table member in the sink
SymtabBody == w[3].bytes

\* C22: the body of the symbol table member of a complete archive has the
\* layout of the kind it was written for, with fields of 4 bytes for a 32-bit
\* kind and 8 for a 64-bit one.  GNU: the number of symbols, the member offset of
\* every symbol, the name buffer, padding to an even length.  BSD: the length in
\* bytes of the pairs, for every symbol its name offset and its member offset in
\* member and discovery order, the length of the name buffer, the name buffer,
\* NULs up to a multiple of 8.  The size of its header (less the BSD name) is
\* the length of the body.
C22_SymtabBody ==
    (pc = "done" /\ SymtabEmitted) =>
        LET W == IF is_64bit_kind(kind) THEN 8 ELSE 4
            n == Len(AllSymbols)
            names == ExpectedNames
            body == SymtabBody
        IN  /\ Layout.width = W
            /\ Layout.family = (IF is_bsd_like(kind) THEN "bsd" ELSE "gnu")
            /\ DecodedSize(w[2].bytes) = U64FromInt(Len(body))
            /\ IF is_bsd_like(kind) THEN
                   LET unpadded == W + 2 * n * W + W + Len(names)
                   IN  /\ SymtabField(1, W) = U64FromInt(2 * n * W)
                       /\ \A t \in 1..n :
                              /\ SymtabField(W + (t - 1) * 2 * W + 1, W + (t - 1) * 2 * W + W)
                                     = U64FromInt(NameOffset(t))
                              /\ SymtabField(W + (t - 1) * 2 * W + W + 1, W + t * 2 * W)
                                     = OffsetOfSlice(HeaderAt(DataIndex(AllSymbols[t].member)))
                       /\ SymtabField(W + 2 * n * W + 1, W + 2 * n * W + W)
                              = U64FromInt(Len(names))
                       /\ SubSeq(body, W + 2 * n * W + W + 1, unpadded) = names
                       /\ Len(body) = unpadded + ((8 - (unpadded % 8)) % 8)
                       /\ \A b \in (unpadded + 1)..Len(body) : body[b] = 0
               ELSE
                   LET unpadded == W + n * W + Len(names)
                   IN  /\ SymtabField(1, W) = U64FromInt(n)
                       /\ \A t \in 1..n :
                              SymtabField(W + (t - 1) * W + 1, W + t * W)
                                  = OffsetOfSlice(HeaderAt(DataIndex(AllSymbols[t].member)))
                       /\ SubSeq(body, W + n * W + 1, unpadded) = names
                       /\ Len(body) = unpadded + (unpadded % 2)

\* C22 witness: a complete Darwin archive of two objects with three symbols:
\* fields of 4 bytes, 24 bytes of pairs, a name buffer of 9 bytes and 7 NULs
C22_Witness ==
    /\ pc = "done"
    /\ SymtabEmitted
    /\ kind = "Darwin"
    /\ Len(new_members) = 2
    /\ Len(AllSymbols) = 3
    /\ AllSymbols[3].member = 2
    /\ SymtabField(1, 4) = U64FromInt(24)
    /\ SymtabField(29, 32) = U64FromInt(9)
    /\ Len(SymtabBody) = 48
    /\ SymtabBody[48] = 0
    /\ DecodedSize(w[2].bytes) = U64FromInt(48)

\* a complete archive with a symbol table member of a 32-bit kind
Symtab32Done == pc = "done" /\ SymtabEmitted /\ ~is_64bit_kind(kind)

\* C23 (as claimed): the call never fails while it writes the symbol table, and
\* in a symbol table of a 32-bit kind every member offset is below 2^32 and the
\* largest of them, that of the last symbol, is the offset the sizing phase
\* compared with the threshold.
C23_TestedOffsetIsLargest ==
    /\ pc = "panic" => w = << >>
    /\ Symtab32Done =>
           /\ \A t \in 1..Len(AllSymbols) : ~Ge(SymbolMemberOffset(t), TwoPow32)
           /\ AllSymbols # << >> => last_offset = SymbolMemberOffset(Len(AllSymbols))

\* C23 (amended): the call never fails while it writes the symbol table, and in
\* a symbol table of a 32-bit kind every member offset is below 2^32: the
\* offset the sizing phase compared with the threshold is below 2^32, it is
\* the offset of the last member record of the archive, and no member offset of
\* the symbol table is larger; the last of them is that offset when the last
\* member has a symbol.
C23_TestedOffsetBounds ==
    /\ pc = "panic" => w = << >>
    /\ Symtab32Done =>
           /\ ~Ge(last_offset, SYM64_THRESHOLD)
           /\ data # << >> => last_offset = OffsetOfSlice(HeaderAt(Len(data)))
           /\ (data # << >> /\ data[Len(data)].symbols # << >>) =>
                  last_offset = SymbolMemberOffset(Len(AllSymbols))
           /\ \A t \in 1..Len(AllSymbols) :
                  /\ Ge(last_offset, SymbolMemberOffset(t))
                  /\ ~Ge(SymbolMemberOffset(t), TwoPow32)

\* C23 witness: a complete Gnu archive whose first member has a symbol and
\* whose last member, without symbols, starts 78 bytes after the magic and
\* ends close to 2^32
C23_Witness ==
    /\ Symtab32Done
    /\ kind = "Gnu"
    /\ Len(new_members) = 2
    /\ new_members[2].buf = BelowThreshold
    /\ Len(AllSymbols) = 1
    /\ Gt(last_offset, SymbolMemberOffset(1))
    /\ last_offset = OffsetOfSlice(HeaderAt(2))

\* the call asks for a symbol table and for wall-clock timestamps
WallClockSymtab == write_symtab /\ ~deterministic

\* without a symbol table a call panics for its kind or for thin, never for the
\* deterministic flag
NoSymtabNoClock ==
    (~write_symtab /\ pc = "panic") =>
        ThinAssertPanics(thin, caller_kind) \/ NotSupportedForWriting(caller_kind)

TrailingSize(h) == TrimRight(SubSeq(h, Len(h) - 11, Len(h) - 2))

\* C25: in thin mode no symbol is extracted from any member, whatever its
\* buffer holds, so that no name of a symbol is collected and no object is
\* seen; in the complete thin archive the header of every member records the
\* size 0, whatever the length of its buffer, and there is no symbol table
\* member, also when write_symtab is set.
C25_ThinSizeAndSymbols ==
    thin =>
        /\ \A k \in 1..Len(data) : data[k].symbols = << >>
        /\ sym_names = << >>
        /\ ~has_object
        /\ pc = "done" =>
               /\ ~SymtabEmitted
               /\ Len(w) = 1 + 3 * Len(data)
               /\ \A i \in 1..Len(new_members) :
                      /\ TrailingSize(MemberHeader(i)) = Str(<< "0" >>)
                      /\ data[DataIndex(i)].data.len = Zero

\* C25 witness: a complete thin archive asked to carry a symbol table, with a
\* member whose 24-byte buffer is an object that defines a symbol
C25_Witness ==
    /\ thin
    /\ write_symtab
    /\ pc = "done"
    /\ \E i \in 1..Len(new_members) :
           /\ new_members[i].buf = ObjOneSym
           /\ get_symbols_of(new_members[i].buf.obj.syms, << >>).ret # << >>
           /\ TrailingSize(MemberHeader(i)) = Str(<< "0" >>)
    /\ ~SymtabEmitted

====
